---- MODULE Spec2Model ----
(***************************************************************************)
(* Model of parse_to_xml.py: the main feed (articles.xml), the daily delta *)
(* feeds (daily_feed.xml, daily_feed_<k>.xml) and the watermark file       *)
(* (last_seen.json), driven by the three command-line modes of __main__.   *)
(*                                                                         *)
(* Instants are integers counting ticks of 1/Res second since the model    *)
(* epoch 2029-12-29 00:00:00 UTC.  Texts (urls, date texts) are sequences  *)
(* of one-character strings.                                               *)
(***************************************************************************)
EXTENDS Integers, Sequences, FiniteSets, TLC

\* ------------------------------------------------------------------------
\* Bounds of the model
\* ------------------------------------------------------------------------
\* ticks per second: datetime.now() is finer than the whole seconds that the
\* pubDate text of an item keeps
Res == 2
\* cards on one fetched page
MaxBatch == 2
\* pages fetched in one behaviour
MaxFetch == 1
\* program runs in one behaviour
MaxRuns == 4
\* advances of the clock in one behaviour, between runs and within them
MaxTicks == 2
\* runs, complete or interrupted, that follow a drawn state of the files
MaxLaterRuns == 2
\* ticks by which the clock advances while one run makes its readings
MaxDrift == 1

\* ------------------------------------------------------------------------
\* Program constants (MAX_ITEMS and MAX_ITEMS_PER_DAILY scaled down from
\* 500 and 100 so that eviction and overflow batches happen on small feeds)
\* ------------------------------------------------------------------------
MAX_ITEMS == 3
MAX_ITEMS_PER_DAILY == 2
\* update_daily, first run: timedelta(hours=24)
FIRST_RUN_HOURS == 24

Second == Res
Minute == 60 * Second
Hour == 60 * Minute
Day == 24 * Hour

\* An instant is a number of ticks from the model epoch 2029-12-29 00:00:00
\* UTC.  The instants held are those within 2^31 ticks of the epoch (34 years
\* at Res = 2); the date texts and feeds drawn denote instants of 2028..2030.
\* the clock at Init: 2030-01-01 00:00:00 UTC
T0 == 3 * Day

\* ------------------------------------------------------------------------
\* Texts.  The characters are the ASCII ones, U+0001..U+007F.
\* ------------------------------------------------------------------------
Digits == <<"0", "1", "2", "3", "4", "5", "6", "7", "8", "9">>

IsDigit(c) == \E i \in 1..10 : Digits[i] = c

DigitValue(c) == (CHOOSE i \in 1..10 : Digits[i] = c) - 1

\* the control characters U+000B (vertical tab) and U+001C..U+001F (file,
\* group, record and unit separator)
VT == ""
FS == ""
GS == ""
RS == ""
US == ""

\* a whitespace character, for str.strip, str.split and \s
IsSpace(c) == c \in {" ", "\t", "\n", "\r", "\f", VT, FS, GS, RS, US}

\* a whitespace character for int() of an ASCII text
IsIntSpace(c) == c \in {" ", "\t", "\n", "\r", "\f", VT}

\* the characters that no XML 1.0 document can hold: the control characters
\* U+0001..U+001F but \t, \n and \r.  ElementTree writes them as they are,
\* and ET.parse raises ParseError on the document
XmlForbidden ==
    {"", "", "", "", "", "", "", "", "", "", "", "", "", "", "", "", "", "", "", "", "", "", "", "", "", "", "", ""}

\* the text holds a character that makes the document it is written to
\* unparsable
Unwritable(s) == \E i \in 1..Len(s) : s[i] \in XmlForbidden

UpperLetters == <<"A", "B", "C", "D", "E", "F", "G", "H", "I", "J", "K", "L", "M",
                  "N", "O", "P", "Q", "R", "S", "T", "U", "V", "W", "X", "Y", "Z">>

LowerLetters == <<"a", "b", "c", "d", "e", "f", "g", "h", "i", "j", "k", "l", "m",
                  "n", "o", "p", "q", "r", "s", "t", "u", "v", "w", "x", "y", "z">>

\* str.lower on one character
Lower(c) ==
    IF \E i \in 1..26 : UpperLetters[i] = c
    THEN LowerLetters[CHOOSE i \in 1..26 : UpperLetters[i] = c]
    ELSE c

LowerText(s) == [i \in 1..Len(s) |-> Lower(s[i])]

\* str.upper on one character
Upper(c) ==
    IF \E i \in 1..26 : LowerLetters[i] = c
    THEN UpperLetters[CHOOSE i \in 1..26 : LowerLetters[i] = c]
    ELSE c

UpperText(s) == [i \in 1..Len(s) |-> Upper(s[i])]

\* number of whitespace characters at the start (at the end) of s
LeadingSpaces(s) ==
    IF \A i \in 1..Len(s) : IsSpace(s[i]) THEN Len(s)
    ELSE (CHOOSE i \in 1..Len(s) : ~IsSpace(s[i]) /\ \A j \in 1..(i - 1) : IsSpace(s[j])) - 1

TrailingSpaces(s) ==
    IF \A i \in 1..Len(s) : IsSpace(s[i]) THEN Len(s)
    ELSE Len(s) - (CHOOSE i \in 1..Len(s) : ~IsSpace(s[i]) /\ \A j \in (i + 1)..Len(s) : IsSpace(s[j]))

\* str.strip()
Strip(s) ==
    IF LeadingSpaces(s) = Len(s) THEN <<>>
    ELSE SubSeq(s, LeadingSpaces(s) + 1, Len(s) - TrailingSpaces(s))

\* the end-of-line handling of an XML parser: \r\n and \r are read as \n
RECURSIVE LineEnds(_)
LineEnds(s) ==
    IF s = <<>> THEN <<>>
    ELSE IF s[1] # "\r" THEN <<s[1]>> \o LineEnds(Tail(s))
    ELSE IF Len(s) > 1 /\ s[2] = "\n" THEN <<"\n">> \o LineEnds(SubSeq(s, 3, Len(s)))
    ELSE <<"\n">> \o LineEnds(Tail(s))

\* the text of an element as ET.parse gives it for the text s written to it
XmlText(s) == IF \A i \in 1..Len(s) : s[i] # "\r" THEN s ELSE LineEnds(s)

\* str.split(): the runs of characters between whitespace
RECURSIVE Split(_)
Split(s) ==
    LET t == SubSeq(s, LeadingSpaces(s) + 1, Len(s))
        n == IF \A i \in 1..Len(t) : ~IsSpace(t[i]) THEN Len(t)
             ELSE (CHOOSE i \in 1..Len(t) : IsSpace(t[i]) /\ \A j \in 1..(i - 1) : ~IsSpace(t[j])) - 1
    IN  IF t = <<>> THEN <<>>
        ELSE <<SubSeq(t, 1, n)>> \o Split(SubSeq(t, n + 1, Len(t)))

\* str.find(ch) and str.rfind(ch): the index from 0, -1 when ch is not in s
Find(s, ch) ==
    IF \A i \in 1..Len(s) : s[i] # ch THEN -1
    ELSE (CHOOSE i \in 1..Len(s) : s[i] = ch /\ \A j \in 1..(i - 1) : s[j] # ch) - 1

RFind(s, ch) ==
    IF \A i \in 1..Len(s) : s[i] # ch THEN -1
    ELSE (CHOOSE i \in 1..Len(s) : s[i] = ch /\ \A j \in (i + 1)..Len(s) : s[j] # ch) - 1

\* str.split(ch)
RECURSIVE SplitOn(_, _)
SplitOn(s, ch) ==
    IF Find(s, ch) = -1 THEN <<s>>
    ELSE <<SubSeq(s, 1, Find(s, ch))>> \o SplitOn(SubSeq(s, Find(s, ch) + 2, Len(s)), ch)

\* sub is in s (the operator `in` on texts)
Contains(s, sub) ==
    \E i \in 1..(Len(s) - Len(sub) + 1) : SubSeq(s, i, i + Len(sub) - 1) = sub

\* length of the run of digits at the start of s
LeadingDigits(s) ==
    IF \A i \in 1..Len(s) : IsDigit(s[i]) THEN Len(s)
    ELSE (CHOOSE i \in 1..Len(s) : ~IsDigit(s[i]) /\ \A j \in 1..(i - 1) : IsDigit(s[j])) - 1

\* int() of a run of digits
RECURSIVE ToInt(_)
ToInt(s) == IF s = <<>> THEN 0 ELSE 10 * ToInt(SubSeq(s, 1, Len(s) - 1)) + DigitValue(s[Len(s)])

\* int(s) returns: s is an optional sign and digits, single underscores
\* allowed between digits, whitespace allowed around
Unsigned(t) == IF t # <<>> /\ t[1] \in {"+", "-"} THEN Tail(t) ELSE t

IsIntBody(body) ==
    /\ body # <<>>
    /\ \A i \in 1..Len(body) : IsDigit(body[i]) \/ body[i] = "_"
    /\ IsDigit(body[1]) /\ IsDigit(body[Len(body)])
    /\ \A i \in 1..(Len(body) - 1) : ~(body[i] = "_" /\ body[i + 1] = "_")

\* s without the whitespace that int() skips at its ends
RECURSIVE IntStrip(_)
IntStrip(s) ==
    IF s = <<>> THEN s
    ELSE IF IsIntSpace(Head(s)) THEN IntStrip(Tail(s))
    ELSE IF IsIntSpace(s[Len(s)]) THEN IntStrip(SubSeq(s, 1, Len(s) - 1))
    ELSE s

IsIntText(s) == IsIntBody(Unsigned(IntStrip(s)))

\* magnitudes from IntLimit on are outside every range that datetime() and
\* timezone() accept, and are all represented by IntLimit
IntLimit == 1000000

\* int(s) for a text that IsIntText
LeadingZeros(ds) ==
    IF \A i \in 1..Len(ds) : ds[i] = "0" THEN Len(ds)
    ELSE (CHOOSE i \in 1..Len(ds) : ds[i] # "0" /\ \A j \in 1..(i - 1) : ds[j] = "0") - 1

Magnitude(ds) == IF Len(ds) - LeadingZeros(ds) > 6 THEN IntLimit ELSE ToInt(ds)

Signed(t) ==
    IF t[1] = "-" THEN 0 - Magnitude(SelectSeq(t, IsDigit)) ELSE Magnitude(SelectSeq(t, IsDigit))

IntValue(s) == Signed(IntStrip(s))

\* re.match(r'(\d+)\s*(m|h|d)', s): the unit matched, or "" when s does not
\* start with digits, optional whitespace and one of m, h, d
UnitAt(rest, ns) ==
    IF ns = Len(rest) THEN ""
    ELSE IF rest[ns + 1] \in {"m", "h", "d"} THEN rest[ns + 1]
    ELSE ""

UnitOf(rest) == UnitAt(rest, LeadingSpaces(rest))

RelativeUnit(s) ==
    IF LeadingDigits(s) = 0 THEN "" ELSE UnitOf(SubSeq(s, LeadingDigits(s) + 1, Len(s)))

\* ------------------------------------------------------------------------
\* datetime(y, m, d, hh, mm, ss)
\* ------------------------------------------------------------------------
IsLeap(y) == (y % 4 = 0 /\ y % 100 # 0) \/ y % 400 = 0

DaysInMonth(y, m) ==
    IF m = 2 THEN (IF IsLeap(y) THEN 29 ELSE 28)
    ELSE IF m \in {4, 6, 9, 11} THEN 30 ELSE 31

\* days from 1970-01-01 to the civil date y-m-d
DaysFromCivil(y, m, d) ==
    LET yy == IF m <= 2 THEN y - 1 ELSE y
        era == yy \div 400
        yoe == yy - era * 400
        mp == (m + 9) % 12
        doy == (153 * mp + 2) \div 5 + d - 1
        doe == yoe * 365 + yoe \div 4 - yoe \div 100 + doy
    IN  era * 146097 + doe - 719468

\* the model epoch 2029-12-29 counted in days from 1970-01-01
EpochDays == DaysFromCivil(2029, 12, 29)

\* datetime(y, m, d, hh, mm, ss) accepts the fields
FieldsInRange(y, m, d, hh, mm, ss) ==
    /\ y \in 1..9999 /\ m \in 1..12 /\ d \in 1..DaysInMonth(y, m)
    /\ hh \in 0..23 /\ mm \in 0..59 /\ ss \in 0..59

\* the instant of the civil time, taken as UTC
CivilInstant(y, m, d, hh, mm, ss) ==
    (DaysFromCivil(y, m, d) - EpochDays) * Day + hh * Hour + mm * Minute + ss * Second

\* a parse that raised
NoDate == [ok |-> FALSE, instant |-> 0]

\* ------------------------------------------------------------------------
\* parse_relative_time
\* ------------------------------------------------------------------------
\* the outcomes of a call that returns a datetime: it returns the instant t,
\* or it raises an exception that nothing catches
At(t) == [raises |-> FALSE, instant |-> t]

Raised == [raises |-> TRUE, instant |-> 0]

\* datetime.min, 0001-01-01, counted in days from 1970-01-01
YearOneDays == DaysFromCivil(1, 1, 1)

\* the whole minutes from datetime.min to the reading of the clock
SpanMinutes(reading) == (EpochDays - YearOneDays) * 24 * 60 + reading \div Minute

\* values from BigValue on are more minutes than SpanMinutes of any reading,
\* and are all represented by BigValue
BigValue == 2000000000

\* int(match.group(1)) of the digits ds
ValueOf(ds, sig) ==
    IF sig > 10 \/ (sig = 10 /\ ds[Len(ds) - 9] # "1") THEN BigValue ELSE ToInt(ds)

RelativeValue(s) ==
    ValueOf(SubSeq(s, 1, LeadingDigits(s)),
            LeadingDigits(s) - LeadingZeros(SubSeq(s, 1, LeadingDigits(s))))

\* now - timedelta(minutes=value * unit_minutes): OverflowError when the
\* timedelta or the result is out of range (the result before datetime.min)
Back(value, unit_minutes, reading) ==
    IF value > SpanMinutes(reading) \div unit_minutes THEN Raised
    ELSE At(reading - value * unit_minutes * Minute)

\* the branches on the unit; reading is the reading of the clock
RelativeTo(value, unit, reading) ==
    CASE unit = "m" -> Back(value, 1, reading)
      [] unit = "h" -> Back(value, 60, reading)
      [] unit = "d" -> Back(value, 24 * 60, reading)
      [] OTHER -> At(reading)

RelativeOf(t, reading) ==
    IF RelativeUnit(t) = "" THEN At(reading)
    ELSE RelativeTo(RelativeValue(t), RelativeUnit(t), reading)

\* parse_relative_time; reading is the reading of the clock it makes
parse_relative_time(time_text, reading) == RelativeOf(LowerText(Strip(time_text)), reading)

\* ------------------------------------------------------------------------
\* email.utils.parsedate_to_datetime(data)
\* ------------------------------------------------------------------------
MonthNames == <<<<"J", "a", "n">>, <<"F", "e", "b">>, <<"M", "a", "r">>,
                <<"A", "p", "r">>, <<"M", "a", "y">>, <<"J", "u", "n">>,
                <<"J", "u", "l">>, <<"A", "u", "g">>, <<"S", "e", "p">>,
                <<"O", "c", "t">>, <<"N", "o", "v">>, <<"D", "e", "c">>>>

FullMonthNames == <<<<"j", "a", "n", "u", "a", "r", "y">>, <<"f", "e", "b", "r", "u", "a", "r", "y">>,
                    <<"m", "a", "r", "c", "h">>, <<"a", "p", "r", "i", "l">>,
                    <<"m", "a", "y">>, <<"j", "u", "n", "e">>,
                    <<"j", "u", "l", "y">>, <<"a", "u", "g", "u", "s", "t">>,
                    <<"s", "e", "p", "t", "e", "m", "b", "e", "r">>, <<"o", "c", "t", "o", "b", "e", "r">>,
                    <<"n", "o", "v", "e", "m", "b", "e", "r">>, <<"d", "e", "c", "e", "m", "b", "e", "r">>>>

DayNames == {<<"m", "o", "n">>, <<"t", "u", "e">>, <<"w", "e", "d">>, <<"t", "h", "u">>,
             <<"f", "r", "i">>, <<"s", "a", "t">>, <<"s", "u", "n">>}

\* the month a name denotes, whatever its case: an abbreviation, or for
\* _parsedate_tz also a full name; 0 when it is no month name
MonthIndex(names, lower) ==
    IF \E m \in 1..12 : LowerText(names[m]) = lower
    THEN CHOOSE m \in 1..12 : LowerText(names[m]) = lower
    ELSE 0

MonthNumber(name) == MonthIndex(MonthNames, LowerText(name))

EmailMonthOf(m, name) == IF m # 0 THEN m ELSE MonthIndex(FullMonthNames, LowerText(name))

EmailMonth(name) == EmailMonthOf(MonthNumber(name), name)

\* a year below 100 is taken as a two-digit year
EmailYear(yy) == IF yy >= 100 THEN yy ELSE IF yy > 68 THEN yy + 1900 ELSE yy + 2000

\* t without one comma at its end
DropComma(t) == IF t # <<>> /\ t[Len(t)] = "," THEN SubSeq(t, 1, Len(t) - 1) ELSE t

\* _timezones[tz]; 1, which is no entry of the table, for a tz not in it
ZoneOffset(tz) ==
    CASE
             tz = <<"U", "T">> -> 0
          [] tz = <<"U", "T", "C">> -> 0
          [] tz = <<"G", "M", "T">> -> 0
          [] tz = <<"Z">> -> 0
          [] tz = <<"A", "S", "T">> -> -400
          [] tz = <<"A", "D", "T">> -> -300
          [] tz = <<"E", "S", "T">> -> -500
          [] tz = <<"E", "D", "T">> -> -400
          [] tz = <<"C", "S", "T">> -> -600
          [] tz = <<"C", "D", "T">> -> -500
          [] tz = <<"M", "S", "T">> -> -700
          [] tz = <<"M", "D", "T">> -> -600
          [] tz = <<"P", "S", "T">> -> -800
          [] tz = <<"P", "D", "T">> -> -700
          [] OTHER -> 1

\* _parsedate_tz on the whitespace-separated parts d of the text.  A day name
\* at the start is skipped, or what precedes a comma in the first part
SkipDayName(d) ==
    IF d = <<>> THEN <<>>
    ELSE IF RFind(d[1], ",") = Len(d[1]) - 1 \/ LowerText(d[1]) \in DayNames THEN Tail(d)
    ELSE IF RFind(d[1], ",") >= 0
    THEN <<SubSeq(d[1], RFind(d[1], ",") + 2, Len(d[1]))>> \o Tail(d)
    ELSE d

\* a date of three parts whose first is dd-mm-yy (RFC 850)
SplitDashes(d) ==
    IF Len(d) = 3 /\ Len(SplitOn(d[1], "-")) = 3 THEN SplitOn(d[1], "-") \o Tail(d) ELSE d

\* the index of the sign that starts the zone in the text s of a time
ZoneSign(s) == IF Find(s, "+") = -1 THEN Find(s, "-") ELSE Find(s, "+")

\* a date of four parts: the zone is split off the time, or is ''
SplitZone(d) ==
    IF Len(d) # 4 THEN d
    ELSE IF ZoneSign(d[4]) > 0
    THEN SubSeq(d, 1, 3) \o <<SubSeq(d[4], 1, ZoneSign(d[4])),
                              SubSeq(d[4], ZoneSign(d[4]) + 1, Len(d[4]))>>
    ELSE d \o << <<>> >>

\* the five texts [dd, mm, yy, tm, tz], <<>> when there are fewer parts
FirstFive(d) == IF Len(d) < 5 THEN <<>> ELSE SubSeq(d, 1, 5)

EmailData(data) == FirstFive(SplitZone(SplitDashes(SkipDayName(Split(data)))))

\* dd, mm = mm, dd.lower() when mm is no month name
SwapMonth(f) ==
    IF EmailMonth(f[2]) = 0 THEN <<LowerText(f[2]), f[1], f[3], f[4], f[5]>> ELSE f

\* yy, tm = tm, yy when yy holds a colon after its first character
SwapTime(f) == IF Find(f[3], ":") > 0 THEN <<f[1], f[2], f[4], f[3], f[5]>> ELSE f

\* the commas at the ends of dd and of yy are dropped
DropCommas(f) == <<DropComma(f[1]), f[2], DropComma(f[3]), f[4], f[5]>>

\* yy, tz = tz, yy when yy does not start with a digit
SwapZone(f) ==
    IF f[3] # <<>> /\ ~IsDigit(f[3][1]) THEN <<f[1], f[2], f[5], f[4], f[3]>> ELSE f

\* [thh, tmm, tss] of the text tm of the time, <<>> when it has no such parts
TimeParts(tm) ==
    IF Len(SplitOn(tm, ":")) = 2 THEN SplitOn(tm, ":") \o << <<"0">> >>
    ELSE IF Len(SplitOn(tm, ":")) = 3 THEN SplitOn(tm, ":")
    ELSE IF Len(SplitOn(tm, ":")) # 1 THEN <<>>
    ELSE IF Len(SplitOn(tm, ".")) = 2 THEN SplitOn(tm, ".") \o << <<"0">> >>
    ELSE IF Len(SplitOn(tm, ".")) = 3 THEN SplitOn(tm, ".")
    ELSE <<>>

\* tzoffset of the text tz in upper case: of its name, or its number, else 0
ZoneNumber(tz) ==
    IF ZoneOffset(tz) # 1 THEN ZoneOffset(tz)
    ELSE IF IsIntText(tz) THEN IntValue(tz)
    ELSE 0

\* tzoffset in seconds: -0500 is -18000
ZoneSeconds(n) ==
    IF n < 0 THEN 0 - (((0 - n) \div 100) * 3600 + ((0 - n) % 100) * 60)
    ELSE (n \div 100) * 3600 + (n % 100) * 60

\* datetime(y, m, d, hh, mm, ss, tzinfo=timezone(timedelta(seconds=offset)))
\* and its astimezone(timezone.utc), which raises OverflowError past datetime.max
DateAt(y, m, d, hh, mm, ss, offset) ==
    IF /\ FieldsInRange(y, m, d, hh, mm, ss)
       /\ offset > 0 - 24 * 3600 /\ offset < 24 * 3600
       /\ ~(y = 9999 /\ m = 12 /\ d = 31 /\ hh * 3600 + mm * 60 + ss - offset >= 24 * 3600)
    THEN [ok |-> TRUE, instant |-> CivilInstant(y, m, d, hh, mm, ss) - offset * Second]
    ELSE NoDate

\* the date of the texts f = [dd, mm, yy, tm, tz] after the swaps, hms the
\* parts of the time
EmailDate(f, hms) ==
    IF /\ EmailMonth(f[2]) # 0
       /\ f[3] # <<>>
       /\ hms # <<>>
       /\ IsIntText(f[3]) /\ IsIntText(f[1])
       /\ \A k \in 1..3 : IsIntText(hms[k])
    THEN DateAt(EmailYear(IntValue(f[3])), EmailMonth(f[2]), IntValue(f[1]),
                IntValue(hms[1]), IntValue(hms[2]), IntValue(hms[3]),
                ZoneSeconds(ZoneNumber(UpperText(f[5]))))
    ELSE NoDate

\* the texts after the swaps and EmailDate of them
EmailSwapped(f) == EmailDate(f, TimeParts(DropComma(f[4])))

\* _parsedate_tz from the five texts on, and the datetime built of its result
EmailParts(f) ==
    IF f = <<>> THEN NoDate
    ELSE IF f[1] = <<>> \/ f[2] = <<>> \/ f[3] = <<>> THEN NoDate
    ELSE EmailSwapped(SwapZone(DropCommas(SwapTime(SwapMonth(f)))))

parsedate_to_datetime(data) == EmailParts(EmailData(data))

\* ------------------------------------------------------------------------
\* datetime.strptime(date_string, format)
\* ------------------------------------------------------------------------
\* the formats as the directives and characters of the regular expression
\* that strptime builds: " " is a run of whitespace (\s+)
FORMAT_MDY == <<"%b", " ", "%d", ",", " ", "%Y", " ", "%I", ":", "%M", " ", "%p">>

FORMAT_DMY == <<"%d", " ", "%b", " ", "%Y", " ", "%H", ":", "%M", ":", "%S">>

FORMAT_ISO == <<"%Y", "-", "%m", "-", "%d", " ", "%H", ":", "%M", ":", "%S">>

\* the two characters a, b match a two-character alternative of the directive
TwoChars(e, a, b) ==
    CASE e \in {"%m", "%I"} ->
            (a = "1" /\ b \in {"0", "1", "2"}) \/ (a = "0" /\ IsDigit(b) /\ b # "0")
      [] e = "%d" ->
            \/ a = "3" /\ b \in {"0", "1"}
            \/ a \in {"1", "2"} /\ IsDigit(b)
            \/ a \in {"0", " "} /\ IsDigit(b) /\ b # "0"
      [] e = "%H" ->
            (a = "2" /\ b \in {"0", "1", "2", "3"}) \/ (a \in {"0", "1"} /\ IsDigit(b))
      [] e = "%M" -> a \in {"0", "1", "2", "3", "4", "5"} /\ IsDigit(b)
      [] e = "%S" ->
            \/ a = "6" /\ b \in {"0", "1"}
            \/ a \in {"0", "1", "2", "3", "4", "5"} /\ IsDigit(b)
      [] OTHER -> FALSE

\* the character a matches the one-character alternative of the directive
OneChar(e, a) ==
    CASE e \in {"%m", "%I", "%d"} -> IsDigit(a) /\ a # "0"
      [] e \in {"%H", "%M", "%S"} -> IsDigit(a)
      [] OTHER -> FALSE

\* the lengths of the matches of the element e of a format at the position
\* pos of s, in the order the regular expression tries them
Candidates(e, s, pos) ==
    LET left == Len(s) - pos + 1
        run == LeadingSpaces(SubSeq(s, pos, Len(s)))
    IN  CASE e = " " -> [k \in 1..run |-> run + 1 - k]
          [] e = "%Y" ->
                IF left >= 4 /\ \A k \in 0..3 : IsDigit(s[pos + k]) THEN <<4>> ELSE <<>>
          [] e = "%b" ->
                IF left >= 3 /\ MonthNumber(SubSeq(s, pos, pos + 2)) # 0 THEN <<3>> ELSE <<>>
          [] e = "%p" ->
                IF left >= 2 /\ LowerText(SubSeq(s, pos, pos + 1)) \in {<<"a", "m">>, <<"p", "m">>}
                THEN <<2>> ELSE <<>>
          [] e \in {"%m", "%d", "%H", "%I", "%M", "%S"} ->
                (IF left >= 2 /\ TwoChars(e, s[pos], s[pos + 1]) THEN <<2>> ELSE <<>>)
                \o (IF left >= 1 /\ OneChar(e, s[pos]) THEN <<1>> ELSE <<>>)
          [] OTHER -> IF left >= 1 /\ s[pos] = e THEN <<1>> ELSE <<>>

\* the first match of the elements i.. of the format at the position pos of
\* s, the n first lengths that the element i can match left out (they were
\* tried): [ok, end, found], found the texts matched by the elements
RECURSIVE Match(_, _, _, _, _)
Match(s, pos, format, i, n) ==
    IF i > Len(format) THEN [ok |-> TRUE, end |-> pos, found |-> <<>>]
    ELSE LET lens == Candidates(format[i], s, pos)
         IN  IF n >= Len(lens) THEN [ok |-> FALSE, end |-> 0, found |-> <<>>]
             ELSE LET r == Match(s, pos + lens[n + 1], format, i + 1, 0)
                  IN  IF r.ok
                      THEN [r EXCEPT !.found = <<SubSeq(s, pos, pos + lens[n + 1] - 1)>>
                                               \o r.found]
                      ELSE Match(s, pos, format, i, n + 1)

\* the number the directive e matched in a match of the format, 0 when the
\* format does not hold e
Field(format, found, e) ==
    IF \E i \in 1..Len(format) : format[i] = e
    THEN ToInt(SelectSeq(found[CHOOSE i \in 1..Len(format) : format[i] = e], IsDigit))
    ELSE 0

\* the text the directive e matched
FieldText(format, found, e) == found[CHOOSE i \in 1..Len(format) : format[i] = e]

\* the hour of the day of the hour h of the 12-hour clock with the marker ap
HourOf12(h, ap) ==
    IF LowerText(ap) = <<"p", "m">> THEN (IF h = 12 THEN 12 ELSE h + 12)
    ELSE (IF h = 12 THEN 0 ELSE h)

\* the month and the hour of the day of a match of the format
MonthOf(format, found) ==
    IF \E i \in 1..Len(format) : format[i] = "%b"
    THEN MonthNumber(FieldText(format, found, "%b"))
    ELSE Field(format, found, "%m")

HourOf(format, found) ==
    IF \E i \in 1..Len(format) : format[i] = "%I"
    THEN HourOf12(Field(format, found, "%I"), FieldText(format, found, "%p"))
    ELSE Field(format, found, "%H")

\* the datetime of the match m of the format on a text of n characters: the
\* match has to end where the text ends
MatchDate(format, m, n) ==
    IF m.ok /\ m.end = n + 1
    THEN DateAt(Field(format, m.found, "%Y"), MonthOf(format, m.found),
                Field(format, m.found, "%d"), HourOf(format, m.found),
                Field(format, m.found, "%M"), Field(format, m.found, "%S"), 0)
    ELSE NoDate

\* strptime(date_string, format), the datetime taken as UTC
strptime(date_string, format) ==
    MatchDate(format, Match(date_string, 1, format, 1, 0), Len(date_string))

\* ------------------------------------------------------------------------
\* parse_date_from_text
\* ------------------------------------------------------------------------
\* re.match(r'\d+\s*[mhd]', date_text.strip().lower())
LooksRelative(date_text) == RelativeUnit(LowerText(Strip(date_text))) # ""

\* the formats tried in turn after parsedate_to_datetime raised
Formats == <<FORMAT_MDY, FORMAT_DMY, FORMAT_ISO>>

\* the date r when a parse gave it, else the date other
OrElse(r, other) == IF r.ok THEN r ELSE other

\* the loop over the formats from the k-th on: the first date strptime gives
RECURSIVE TryFormats(_, _)
TryFormats(date_text, k) ==
    IF k > Len(Formats) THEN NoDate
    ELSE OrElse(strptime(date_text, Formats[k]), TryFormats(date_text, k + 1))

\* the date that the text gives as an absolute one
AbsoluteDate(date_text) == OrElse(parsedate_to_datetime(date_text), TryFormats(date_text, 1))

\* the call returns a reading of the clock, or a time counted back from one
ReadsClock(date_text) ==
    \/ date_text = <<>>
    \/ LooksRelative(date_text)
    \/ ~AbsoluteDate(date_text).ok

\* the instant of the date r, the reading of the clock when r is none
InstantOr(r, reading) == IF r.ok THEN r.instant ELSE reading

\* parse_date_from_text; reading is the reading of the clock the call makes
\* when it makes one
parse_date_from_text(date_text, reading) ==
    IF date_text = <<>> THEN At(reading)
    ELSE IF LooksRelative(date_text) THEN parse_relative_time(date_text, reading)
    ELSE At(InstantOr(AbsoluteDate(date_text), reading))

\* pub.strftime("%a, %d %b %Y %H:%M:%S %z"): the text keeps whole seconds;
\* it is represented by the count of seconds since the model epoch
FormatPubDate(instant) == instant \div Res

\* parse_date_from_text on a pubDate text written by FormatPubDate
\* (it starts with a weekday name, so parsedate_to_datetime reads it)
ParsePubDate(secs) == secs * Res

\* ------------------------------------------------------------------------
\* Inputs: the pages the fetch step can leave in news.html
\* ------------------------------------------------------------------------
\* hrefs: a bare one, one with a space ahead, one relative to the site root
Urls == {<<"a">>, <<" ", "a">>, <<"/", "b">>}

Titles == {<<"t">>}

\* "2030-01-01 05:00:00": five hours after T0
FutureText ==
    <<"2", "0", "3", "0", "-", "0", "1", "-", "0", "1", " ",
      "0", "5", ":", "0", "0", ":", "0", "0">>

DateTexts == {<<>>, <<"2", "d">>, FutureText}

TwoDigits(n) == <<Digits[((n \div 10) % 10) + 1], Digits[(n % 10) + 1]>>

FourDigits(n) == TwoDigits(n \div 100) \o TwoDigits(n % 100)

\* "DD Mon YYYY HH:MM:SS"
DmyText(d, m, y, hh, mm, ss) ==
    TwoDigits(d) \o <<" ">> \o MonthNames[m] \o <<" ">> \o FourDigits(y) \o <<" ">>
    \o TwoDigits(hh) \o <<":">> \o TwoDigits(mm) \o <<":">> \o TwoDigits(ss)

\* "Mon DD, YYYY HH:MM AM/PM"; ap is "A" or "P"
MdyText(m, d, y, hh, mm, ap) ==
    MonthNames[m] \o <<" ">> \o TwoDigits(d) \o <<",", " ">> \o FourDigits(y) \o <<" ">>
    \o TwoDigits(hh) \o <<":">> \o TwoDigits(mm) \o <<" ", ap, "M">>

\* "YYYY-MM-DD HH:MM:SS"
IsoText(y, m, d, hh, mm, ss) ==
    FourDigits(y) \o <<"-">> \o TwoDigits(m) \o <<"-">> \o TwoDigits(d) \o <<" ">>
    \o TwoDigits(hh) \o <<":">> \o TwoDigits(mm) \o <<":">> \o TwoDigits(ss)

\* "800000d": more days than the time from datetime.min to now
TooLongAgo == <<"8", "0", "0", "0", "0", "0", "d">>

\* the date texts drawn: every month in each of the three formats, with days
\* that some months lack, a leap and a common year, both halves of the day;
\* relative texts; texts of no format
ParseTexts ==
    {DmyText(d, m, y, 1, 27, 5) : d \in {1, 12, 29, 31}, m \in 1..12, y \in {2028, 2029}}
    \cup {MdyText(m, 12, 2029, hh, 27, ap) : m \in 1..12, hh \in {1, 12}, ap \in {"A", "P"}}
    \cup {IsoText(2029, m, d, 1, 27, 0) : m \in 1..12, d \in {12, 31}}
    \cup {<<>>, <<"3", "2", "m">>, <<"1", " ", "h">>, <<"2", "d">>, <<"2", "D">>,
          <<"5", "d", "e", "c">>, <<"2", "x">>, <<"a", "b", "c">>, <<"1", "2">>,
          <<"1", VT, "m">>, <<"1", US, "h">>, TooLongAgo}

PLACEHOLDER_TITLE ==
    <<"N", "o", " ", "n", "e", "w", " ", "a", "r", "t", "i", "c", "l", "e", "s", " ",
      "s", "i", "n", "c", "e", " ", "l", "a", "s", "t", " ", "u", "p", "d", "a", "t", "e">>

SITE_ROOT == <<"h", "t", "t", "p", "s", ":", "/", "/", "w", "w", "w", ".",
               "t", "b", "s", "n", "e", "w", "s", ".", "n", "e", "t">>

VIDEOS == <<"/", "v", "i", "d", "e", "o", "s", "/">>

\* cards that scrape_articles skips: a video link, a title of whitespace
SkippedCards ==
    {[url |-> VIDEOS \o <<"a">>, title |-> <<"t">>, date |-> <<>>, img |-> <<>>],
     [url |-> <<"c">>, title |-> <<" ">>, date |-> <<>>, img |-> <<>>]}

\* a card on which parse_date_from_text raises
RaisingCards == {[url |-> <<"a">>, title |-> <<"t">>, date |-> TooLongAgo, img |-> <<>>]}

\* a card whose title holds a form feed, which articles.xml cannot hold
UnwritableCards ==
    {[url |-> <<"a">>, title |-> <<"t", "\f", "t">>, date |-> <<>>, img |-> <<>>]}

\* cards with an image, the url of the second with a form feed
ImageCards ==
    {[url |-> <<"/", "b">>, title |-> <<"t">>, date |-> <<>>, img |-> <<"/", "i">>],
     [url |-> <<"a">>, title |-> <<"t">>, date |-> <<>>, img |-> <<"/", "i", "\f">>]}

\* a card with a link: [url, title, date, img] are the href, the text of the
\* link, the text of the date element and the data-src (or else the src) of
\* the img element, "" when the card has none
Cards ==
    [url : Urls, title : Titles, date : DateTexts, img : {<<>>}]
    \cup SkippedCards \cup RaisingCards \cup UnwritableCards

SeqsUpTo(S, n) == UNION {[1..k -> S] : k \in 0..n}

\* the pages: up to MaxBatch cards without an image, or one card with one
Pages == SeqsUpTo(Cards, MaxBatch) \cup SeqsUpTo(ImageCards, 1)

TickSteps == {1, 6 * Hour}

\* the readings of the clock that a run starting at t can make: n readings,
\* none earlier than the one before, the clock advancing by at most `room`
Readings(t, n, room) ==
    {clk \in [1..n -> t..(t + room)] : \A i \in 1..(n - 1) : clk[i] <= clk[i + 1]}

\* the readings that the clock can give in a behaviour: T0 and what up to n
\* advances of the clock make of it
RECURSIVE ClocksFrom(_, _)
ClocksFrom(t, n) ==
    IF n = 0 THEN {t} ELSE {t} \cup UNION {ClocksFrom(t + d, n - 1) : d \in TickSteps}

Clocks == ClocksFrom(T0, MaxTicks)

\* the date texts of the cards drawn
DrawnTexts == DateTexts \cup ParseTexts

\* parse_date_from_text and ReadsClock on the drawn texts and readings,
\* worked out once
DrawnDates == [text \in DrawnTexts, t \in Clocks |-> parse_date_from_text(text, t)]

DrawnReads == [text \in DrawnTexts |-> ReadsClock(text)]

\* parse_date_from_text(pub_text), the call making the reading t of the clock
PubDate(pub_text, t) ==
    IF pub_text \in DrawnTexts /\ t \in Clocks THEN DrawnDates[pub_text, t]
    ELSE parse_date_from_text(pub_text, t)

\* the call parse_date_from_text(pub_text) reads the clock
PubReadsClock(pub_text) ==
    IF pub_text \in DrawnTexts THEN DrawnReads[pub_text] ELSE ReadsClock(pub_text)

\* ------------------------------------------------------------------------
\* State
\* ------------------------------------------------------------------------
VARIABLES
    html,           \* news.html: [exists, cards]
    xml,            \* articles.xml: [exists, items], items head first
    last_seen_file, \* last_seen.json: [exists, last_seen, last_run]
    daily,          \* daily[k]: items of daily feed file k (1 = daily_feed.xml)
    now,            \* the clock
    clock,          \* the readings of the clock the last run made, in order
    mode,           \* the mode of the last run: "none", "main", "daily", "both";
                    \* "main_cut", "daily_cut", "both_cut" when it was
                    \* interrupted in a write; "raised", "daily_raised" when
                    \* an uncaught exception ended it in update_main_xml, in
                    \* update_daily
    created,        \* created_files returned by the last update_daily
    new_main,       \* items the last update_main_xml inserted
    run_cutoff,     \* cutoff_dt of the last update_daily
    selection,      \* new_items of the last update_daily, as sorted
    emitted_before, \* items that update_daily runs before the last one emitted
    feed_before,    \* articles.xml as the last update_daily run read it
    rerun,          \* the last update_daily read the articles.xml that the
                    \* update_daily run before it had read
    merged_page,    \* news.html as the last update_main_xml run read it
    inserted,       \* every item ever inserted, most recent first
    corrupt,        \* the files whose content on disk does not parse:
                    \* [xml, last_seen, daily]
    corrupt_before, \* corrupt as the last run found it
    fetches, runs, ticks

vars == <<html, xml, last_seen_file, daily, now, clock, mode, created, new_main,
          run_cutoff, selection, emitted_before, feed_before, rerun,
          merged_page, inserted, corrupt, corrupt_before, fetches, runs,
          ticks>>

\* ------------------------------------------------------------------------
\* scrape_articles
\* ------------------------------------------------------------------------
\* url = base_url + url for an href that starts with "/"
AbsoluteUrl(url) == IF url # <<>> /\ url[1] = "/" THEN SITE_ROOT \o url ELSE url

\* the card passes the checks made before its date is read: it has an href,
\* which is no video link, and a title
IsArticle(card) ==
    /\ card.url # <<>>
    /\ ~Contains(AbsoluteUrl(card.url), VIDEOS)
    /\ Strip(card.title) # <<>>

\* parse_date_from_text reads the clock for the card
CardReadsClock(card) == IsArticle(card) /\ PubReadsClock(Strip(card.date))

\* the cards for which parse_date_from_text reads the clock
CardsReadClock(cards) == [i \in 1..Len(cards) |-> CardReadsClock(cards[i])]

\* the article of a card that passed the checks, pub its date
Article(card, pub) ==
    [url |-> AbsoluteUrl(card.url), title |-> Strip(card.title), pub |-> pub,
     img |-> AbsoluteUrl(card.img)]

\* the outcome of the loop from a card that passed the checks on: pub is what
\* parse_date_from_text gave for it, read tells whether it read the clock,
\* rest is the outcome of the loop over the cards after it.  An exception of
\* parse_date_from_text ends scrape_articles
Scraped(card, read, pub, rest) ==
    IF pub.raises THEN [raises |-> TRUE, articles |-> <<>>, reads |-> 1]
    ELSE [raises |-> rest.raises,
          articles |-> IF rest.raises THEN <<>> ELSE <<Article(card, pub.instant)>> \o rest.articles,
          reads |-> rest.reads + (IF read THEN 1 ELSE 0)]

\* the loop over the cards: [raises, articles, reads], reads the number of
\* readings of the clock made; reads tells for each card whether the clock
\* is read for it, clk holds the readings of the clock still to come
RECURSIVE ScrapeCards(_, _, _)
ScrapeCards(cards, reads, clk) ==
    IF cards = <<>> THEN [raises |-> FALSE, articles |-> <<>>, reads |-> 0]
    ELSE IF ~IsArticle(Head(cards)) THEN ScrapeCards(Tail(cards), Tail(reads), clk)
    ELSE Scraped(Head(cards), Head(reads),
                 PubDate(Strip(Head(cards).date), IF Head(reads) THEN Head(clk) ELSE T0),
                 ScrapeCards(Tail(cards), Tail(reads), IF Head(reads) THEN Tail(clk) ELSE clk))

\* scrape_articles on news.html; clk holds the readings of the clock it makes
scrape_articles(h, clk) ==
    IF ~h.exists THEN [raises |-> FALSE, articles |-> <<>>, reads |-> 0]
    ELSE ScrapeCards(h.cards, CardsReadClock(h.cards), clk)

\* the number of readings of the clock that scrape_articles makes
ScrapeReads(h, clk) == scrape_articles(h, clk).reads

\* ------------------------------------------------------------------------
\* update_main_xml
\* ------------------------------------------------------------------------
\* the set `existing` built from the <link> texts of the stored items
ExistingLinks(items) == {Strip(XmlText(items[i].link)) : i \in 1..Len(items)}

\* the loop over the scraped articles: the <item> elements created
RECURSIVE NewItems(_, _)
NewItems(articles, existing) ==
    IF articles = <<>> THEN <<>>
    ELSE LET art == Head(articles)
         IN  IF art.url \in existing THEN NewItems(Tail(articles), existing)
             ELSE <<[title |-> art.title, link |-> art.url,
                     pubDate |-> FormatPubDate(art.pub), img |-> art.img]>>
                  \o NewItems(Tail(articles), existing \cup {art.url})

\* channel.insert(insert_position + i, item) for each new item
InsertAtTop(new_items, items) == new_items \o items

\* the trim to MAX_ITEMS
Trim(all_items) ==
    IF Len(all_items) > MAX_ITEMS THEN SubSeq(all_items, 1, MAX_ITEMS)
    ELSE all_items

\* the <item> elements of the channel that update_main_xml works on: those of
\* articles.xml, none when the file is absent or ET.parse raises ParseError
channel_items(x, bad) ==
    IF x.exists /\ ~bad
    THEN [i \in 1..Len(x.items) |->
            [title |-> XmlText(x.items[i].title), link |-> XmlText(x.items[i].link),
             pubDate |-> x.items[i].pubDate, img |-> x.items[i].img]]
    ELSE <<>>

\* the document that tree.write makes of the items parses: no title, no link
\* and no url of an <enclosure> of them holds a character that XML forbids
WellFormed(items) ==
    \A i \in 1..Len(items) :
        ~Unwritable(items[i].title) /\ ~Unwritable(items[i].link) /\ ~Unwritable(items[i].img)

\* link_tag.text.strip() raises for a stored item with an empty <link>, whose
\* text is None
ExistingRaises(items) == \E i \in 1..Len(items) : items[i].link = <<>>

\* tree.write of the items all_items; c tells which files on disk did not
\* parse before.  The file is written whatever the characters of the items,
\* and does not parse when one of them is forbidden
WriteXml(all_items, new_items, c, reads) ==
    [xml |-> [exists |-> TRUE, items |-> all_items],
     corrupt |-> [c EXCEPT !.xml = ~WellFormed(all_items)],
     new_items |-> new_items, raises |-> FALSE, reads |-> reads]

\* the insertion of new_items into the stored items old, the trim, the write
MergeItems(new_items, old, c, reads) ==
    WriteXml(Trim(InsertAtTop(new_items, old)), new_items, c, reads)

\* update_main_xml from the outcome s of scrape_articles on: its exception
\* ends the run, nothing is done with no articles, and the exception of the
\* loop over the stored links ends the run before anything is written
MergeArticles(s, old, x, c) ==
    IF s.raises \/ s.articles = <<>>
    THEN [xml |-> x, corrupt |-> c, new_items |-> <<>>, raises |-> s.raises, reads |-> s.reads]
    ELSE IF ExistingRaises(old)
    THEN [xml |-> x, corrupt |-> c, new_items |-> <<>>, raises |-> TRUE, reads |-> s.reads]
    ELSE MergeItems(NewItems(s.articles, ExistingLinks(old)), old, c, s.reads)

\* the run of update_main_xml on the files h and x; c tells which files on
\* disk do not parse, clk holds the readings of the clock
update_main_xml(h, x, c, clk) ==
    MergeArticles(scrape_articles(h, clk), channel_items(x, c.xml), x, c)

\* update_main_xml interrupted while tree.write writes articles.xml: the file
\* was opened for writing, which empties it, and holds a part of the text
update_main_xml_interrupted(h, x, c, clk) ==
    [xml |-> [exists |-> TRUE, items |-> <<>>],
     corrupt |-> [c EXCEPT !.xml = TRUE],
     new_items |-> NewItems(scrape_articles(h, clk).articles,
                            ExistingLinks(channel_items(x, c.xml))),
     raises |-> FALSE, reads |-> ScrapeReads(h, clk)]

\* ------------------------------------------------------------------------
\* update_daily
\* ------------------------------------------------------------------------
load_existing(x) ==
    IF ~x.exists THEN <<>>
    ELSE [i \in 1..Len(x.items) |->
            [title |-> Strip(XmlText(x.items[i].title)),
             link |-> Strip(XmlText(x.items[i].link)),
             pubDate |-> ParsePubDate(x.items[i].pubDate),
             img |-> x.items[i].img]]

\* load_existing on a file that may not parse: ET.parse raising gives []
load_feed(x, bad) == IF bad THEN <<>> ELSE load_existing(x)

\* last_seen.json absent, or read as {"last_seen": None}
NoWatermark == [exists |-> FALSE, last_seen |-> 0, last_run |-> 0]

\* what is done with last_seen.json inside the try of load_last_seen, the
\* file being there: [raises, mark].  bad is "no", "unparsable" (json.load
\* or fromisoformat raises) or "no_last_seen" (the key is missing or empty)
read_last_seen(f, bad) ==
    [raises |-> bad = "unparsable", mark |-> IF bad = "no" THEN f ELSE NoWatermark]

\* a load without the try: the exception leaves load_last_seen
load_last_seen_unchecked(f, bad) ==
    IF f.exists THEN read_last_seen(f, bad) ELSE [raises |-> FALSE, mark |-> NoWatermark]

\* load_last_seen: [raises, mark]; the except gives {"last_seen": None}
load_last_seen(f, bad) ==
    IF f.exists /\ ~read_last_seen(f, bad).raises THEN read_last_seen(f, bad)
    ELSE [raises |-> FALSE, mark |-> NoWatermark]

\* cutoff_dt
Cutoff(f, t) == IF f.exists THEN f.last_seen ELSE t - FIRST_RUN_HOURS * Hour

\* a scan that also takes the items published at the cutoff
RECURSIVE SelectFromCutoff(_, _, _)
SelectFromCutoff(master_items, cutoff_dt, seen_links) ==
    IF master_items = <<>> THEN <<>>
    ELSE LET item == Head(master_items)
         IN  IF item.link \in seen_links
             THEN SelectFromCutoff(Tail(master_items), cutoff_dt, seen_links)
             ELSE IF item.pubDate >= cutoff_dt
             THEN <<item>> \o SelectFromCutoff(Tail(master_items), cutoff_dt,
                                               seen_links \cup {item.link})
             ELSE SelectFromCutoff(Tail(master_items), cutoff_dt, seen_links)

\* the scan of master_items
RECURSIVE Select(_, _, _)
Select(master_items, cutoff_dt, seen_links) ==
    IF master_items = <<>> THEN <<>>
    ELSE LET item == Head(master_items)
         IN  IF item.link \in seen_links
             THEN Select(Tail(master_items), cutoff_dt, seen_links)
             ELSE IF item.pubDate > cutoff_dt
             THEN <<item>> \o Select(Tail(master_items), cutoff_dt, seen_links \cup {item.link})
             ELSE Select(Tail(master_items), cutoff_dt, seen_links)

\* an insertion that puts the item ahead of the items of its pubDate
RECURSIVE InsertSortedUnstable(_, _)
InsertSortedUnstable(item, sorted) ==
    IF sorted = <<>> THEN <<item>>
    ELSE IF Head(sorted).pubDate > item.pubDate
         THEN <<Head(sorted)>> \o InsertSortedUnstable(item, Tail(sorted))
         ELSE <<item>> \o sorted

\* list.sort(key=pubDate, reverse=True): stable, equal keys keep their order
RECURSIVE InsertSorted(_, _)
InsertSorted(item, sorted) ==
    IF sorted = <<>> THEN <<item>>
    ELSE IF Head(sorted).pubDate >= item.pubDate
         THEN <<Head(sorted)>> \o InsertSorted(item, Tail(sorted))
         ELSE <<item>> \o sorted

RECURSIVE SortDescending(_)
SortDescending(items) ==
    IF items = <<>> THEN <<>>
    ELSE InsertSorted(items[Len(items)], SortDescending(SubSeq(items, 1, Len(items) - 1)))

\* a split that drops the items after the last full batch
RECURSIVE BatchesDropRemainder(_)
BatchesDropRemainder(new_items) ==
    IF Len(new_items) < MAX_ITEMS_PER_DAILY THEN <<>>
    ELSE <<SubSeq(new_items, 1, MAX_ITEMS_PER_DAILY)>>
         \o BatchesDropRemainder(SubSeq(new_items, MAX_ITEMS_PER_DAILY + 1, Len(new_items)))

\* for i in range(0, len(new_items), MAX_ITEMS_PER_DAILY): new_items[i:i + MAX_ITEMS_PER_DAILY]
RECURSIVE Batches(_)
Batches(new_items) ==
    IF new_items = <<>> THEN <<>>
    ELSE IF Len(new_items) <= MAX_ITEMS_PER_DAILY THEN <<new_items>>
    ELSE <<SubSeq(new_items, 1, MAX_ITEMS_PER_DAILY)>>
         \o Batches(SubSeq(new_items, MAX_ITEMS_PER_DAILY + 1, Len(new_items)))

\* minidom.parseString in write_rss raises on a character that XML forbids,
\* before the file is opened
RssRaises(items) == ~WellFormed(items)

\* the number of files at the head of `files` that are written before
\* write_rss raises
RECURSIVE Writable(_)
Writable(files) ==
    IF files = <<>> \/ RssRaises(Head(files)) THEN 0 ELSE 1 + Writable(Tail(files))

\* the value of an attribute as a parser gives it for the text s that minidom
\* wrote as it is: a line end, a tab is read as a space
AttrText(s) ==
    [i \in 1..Len(XmlText(s)) |->
        IF XmlText(s)[i] \in {"\t", "\n"} THEN " " ELSE XmlText(s)[i]]

\* write_rss: the items as the file holds them
write_rss(items) ==
    [i \in 1..Len(items) |->
        [title |-> items[i].title, link |-> items[i].link,
         pubDate |-> FormatPubDate(items[i].pubDate), img |-> AttrText(items[i].img)]]

\* a fallback that writes a feed without items
PlaceholderEmpty(t) == <<>>

\* the synthetic record of the fallback
Placeholder(t) ==
    <<[title |-> PLACEHOLDER_TITLE, link |-> SITE_ROOT, pubDate |-> t, img |-> <<>>]>>

\* max([i["pubDate"] for i in new_items])
MaxPubDate(new_items) ==
    CHOOSE m \in {new_items[i].pubDate : i \in 1..Len(new_items)} :
        \A i \in 1..Len(new_items) : new_items[i].pubDate <= m

\* a watermark that is the time of the run whatever was selected
NewLastSeenNow(new_items, t) == t

\* the watermark the run saves
NewLastSeen(new_items, t) == IF new_items = <<>> THEN t ELSE MaxPubDate(new_items)

\* the daily feed files after the run wrote `written` as files 1..Len(written)
WriteFiles(d, written) ==
    [k \in 1..(IF Len(d) > Len(written) THEN Len(d) ELSE Len(written)) |->
        IF k <= Len(written) THEN written[k] ELSE d[k]]

\* the readings of the clock that one update_daily makes at most: for the
\* first-run cutoff, the placeholder, the watermark and last_run
MaxDailyReads == 4

\* what update_daily computes before it writes, on the files x and f; c tells
\* which files on disk do not parse.  clk holds the readings of the clock in
\* the order the run makes them: for the cutoff when no watermark is loaded
\* (first tells how many that is), then for the placeholder and the watermark
\* when nothing is selected, then for last_run.  raises tells that
\* load_last_seen raised.
DailyPlan(x, f, c, clk) ==
    LET last == load_last_seen(f, c.last_seen)
        k == IF last.mark.exists THEN 0 ELSE 1
        cutoff_dt == Cutoff(last.mark, clk[1])
        new_items == SortDescending(Select(load_feed(x, c.xml), cutoff_dt, {}))
        reads == IF new_items = <<>> THEN k + 3 ELSE k + 1
    IN  [raises |-> last.raises,
         first |-> k,
         cutoff |-> cutoff_dt,
         new_items |-> new_items,
         files |-> IF new_items = <<>> THEN <<write_rss(Placeholder(clk[k + 1]))>>
                   ELSE [j \in 1..Len(Batches(new_items)) |-> write_rss(Batches(new_items)[j])],
         mark |-> [exists |-> TRUE,
                   last_seen |-> NewLastSeen(new_items,
                                             clk[IF new_items = <<>> THEN k + 2 ELSE k + 1]),
                   last_run |-> clk[reads]],
         reads |-> reads]

\* the writes of a run of update_daily in the order it performs them:
\* write_rss for each daily feed file k, then save_last_seen (file 0)
DailyWrites(files, mark) ==
    [k \in 1..Len(files) |-> [file |-> k, items |-> files[k], mark |-> NoWatermark]]
    \o <<[file |-> 0, items |-> <<>>, mark |-> mark]>>

\* the daily feed files after file k was opened for writing and got `items`
WriteFile(d, k, items) ==
    [j \in 1..(IF Len(d) > k THEN Len(d) ELSE k) |->
        IF j = k THEN items ELSE IF j <= Len(d) THEN d[j] ELSE <<>>]

\* the disk [daily, last_seen_file, corrupt] after the write w completed
WriteDone(disk, w) ==
    IF w.file = 0
    THEN [disk EXCEPT !.last_seen_file = w.mark, !.corrupt.last_seen = "no"]
    ELSE [disk EXCEPT !.daily = WriteFile(disk.daily, w.file, w.items),
                      !.corrupt.daily = disk.corrupt.daily \ {w.file}]

\* the disk after the write w was interrupted: open(path, "w") emptied the
\* file and a part of the text was written
WriteTorn(disk, w) ==
    IF w.file = 0
    THEN [disk EXCEPT !.last_seen_file = [exists |-> TRUE, last_seen |-> 0, last_run |-> 0],
                      !.corrupt.last_seen = "unparsable"]
    ELSE [disk EXCEPT !.daily = WriteFile(disk.daily, w.file, <<>>),
                      !.corrupt.daily = disk.corrupt.daily \cup {w.file}]

\* the disk after the first n of the writes ws completed and, when torn, the
\* write after them was interrupted
RECURSIVE ApplyWrites(_, _, _, _)
ApplyWrites(disk, ws, n, torn) ==
    IF ws = <<>> THEN disk
    ELSE IF n = 0 THEN (IF torn THEN WriteTorn(disk, Head(ws)) ELSE disk)
    ELSE ApplyWrites(WriteDone(disk, Head(ws)), Tail(ws), n - 1, torn)

\* the readings of the clock that the run has made when it comes to its
\* write j: the one for the cutoff; for the placeholder, before daily_feed.xml
\* is written; the argument of save_last_seen, before last_seen.json is opened
ReadsAtWrite(p, j) ==
    p.first + (IF p.new_items # <<>> THEN 0 ELSE IF j = 1 THEN 1 ELSE 2)

\* the run of update_daily that ends at write n + 1, after n writes: the
\* write raises before the file is opened, or the process is killed while
\* the file, emptied, is written (torn); reads is the number of readings of
\* the clock the run has made
DailyCut(p, f, d, c, n, torn, reads) ==
    LET ws == DailyWrites(p.files, p.mark)
        disk == ApplyWrites([daily |-> d, last_seen_file |-> f, corrupt |-> c], ws, n, torn)
    IN  [daily |-> disk.daily,
         created |-> [k \in 1..Cardinality({i \in 1..n : ws[i].file # 0}) |-> k],
         last_seen_file |-> disk.last_seen_file,
         corrupt |-> disk.corrupt,
         cutoff |-> p.cutoff,
         new_items |-> p.new_items,
         reads |-> reads,
         raises |-> p.raises,
         writes |-> Len(ws)]

\* the run of update_daily with the plan p interrupted at its write n + 1,
\* after n of its writes.  The file is left as it was (the write raises as it
\* opens it) or emptied and partly written (torn).  late: save_last_seen had
\* read the clock for last_run, which it does with the file open
update_daily_interrupted(p, f, d, c, n, torn, late) ==
    DailyCut(p, f, d, c, n, torn, ReadsAtWrite(p, n + 1) + (IF late THEN 1 ELSE 0))

\* the run of update_daily after its plan p: an exception of load_last_seen
\* ends it before anything is read or written, an exception of write_rss
\* after the files before the one it raises on
DailyRun(p, f, d, c) ==
    IF p.raises
    THEN [daily |-> d, created |-> <<>>, last_seen_file |-> f, corrupt |-> c,
          cutoff |-> 0, new_items |-> <<>>, reads |-> 0, raises |-> TRUE]
    ELSE IF Writable(p.files) < Len(p.files)
    THEN [DailyCut(p, f, d, c, Writable(p.files), FALSE,
                   ReadsAtWrite(p, Writable(p.files) + 1)) EXCEPT !.raises = TRUE]
    ELSE [daily |-> WriteFiles(d, p.files),
          created |-> [k \in 1..Len(p.files) |-> k],
          last_seen_file |-> p.mark,
          corrupt |-> [c EXCEPT !.last_seen = "no",
                                !.daily = c.daily \ (1..Len(p.files))],
          cutoff |-> p.cutoff,
          new_items |-> p.new_items,
          reads |-> p.reads,
          raises |-> FALSE]

\* the run of update_daily on the files x, f, d
update_daily(x, f, d, c, clk) == DailyRun(DailyPlan(x, f, c, clk), f, d, c)

\* ------------------------------------------------------------------------
\* The state machine
\* ------------------------------------------------------------------------
\* every file on disk parses
Sound == [xml |-> FALSE, last_seen |-> "no", daily |-> {}]

Init ==
    /\ html = [exists |-> FALSE, cards |-> <<>>]
    /\ xml = [exists |-> FALSE, items |-> <<>>]
    /\ last_seen_file = NoWatermark
    /\ daily = <<>>
    /\ now = T0
    /\ clock = <<>>
    /\ mode = "none"
    /\ created = <<>>
    /\ new_main = <<>>
    /\ run_cutoff = 0
    /\ selection = <<>>
    /\ emitted_before = {}
    /\ feed_before = [exists |-> FALSE, items |-> <<>>]
    /\ rerun = FALSE
    /\ merged_page = [exists |-> FALSE, cards |-> <<>>]
    /\ inserted = <<>>
    /\ corrupt = Sound
    /\ corrupt_before = Sound
    /\ fetches = 0 /\ runs = 0 /\ ticks = 0

\* the items of the sequence s, as a set
Range(s) == {s[i] : i \in 1..Len(s)}

\* the external fetch step replaces news.html
Fetch(page) ==
    /\ fetches < MaxFetch
    /\ fetches' = fetches + 1
    /\ html' = [exists |-> TRUE, cards |-> page]
    /\ UNCHANGED <<xml, last_seen_file, daily, now, clock, mode, created, new_main,
                   run_cutoff, selection, emitted_before, feed_before, rerun,
                   merged_page, inserted, corrupt, corrupt_before, runs, ticks>>

\* time passes between runs
Tick(d) ==
    /\ ticks < MaxTicks
    /\ ticks' = ticks + 1
    /\ now' = now + d
    /\ UNCHANGED <<html, xml, last_seen_file, daily, clock, mode, created, new_main,
                   run_cutoff, selection, emitted_before, feed_before, rerun,
                   merged_page, inserted, corrupt, corrupt_before, fetches, runs>>

\* the ticks by which the clock can advance during a run
Room == IF MaxTicks - ticks < MaxDrift THEN MaxTicks - ticks ELSE MaxDrift

\* the clock after a run that made the first n of the readings clk
ClockStep(clk, n) ==
    /\ clock' = SubSeq(clk, 1, n)
    /\ now' = (IF n = 0 THEN now ELSE clk[n])
    /\ ticks' = ticks + (IF n = 0 THEN 0 ELSE clk[n] - now)

\* what a run of update_main_xml leaves; a run that an exception ended wrote
\* no file
MainStep(m) ==
    IF m.raises THEN UNCHANGED <<xml, merged_page, new_main, inserted>>
    ELSE /\ xml' = m.xml
         /\ merged_page' = html
         /\ new_main' = m.new_items
         /\ inserted' = m.new_items \o inserted

\* what a run of update_daily on the main feed x leaves
DailyStep(x, r) ==
    /\ daily' = r.daily
    /\ created' = r.created
    /\ last_seen_file' = r.last_seen_file
    /\ run_cutoff' = r.cutoff
    /\ selection' = r.new_items
    /\ emitted_before' = emitted_before \cup Range(selection)
    /\ rerun' = (created # <<>> /\ feed_before = x)
    /\ feed_before' = x

\* what a run of update_main_xml that no update_daily follows leaves, done
\* the mode of the run when no exception ended it
MainOnlyStep(m, clk, done) ==
    /\ MainStep(m)
    /\ corrupt' = m.corrupt
    /\ ClockStep(clk, m.reads)
    /\ mode' = (IF m.raises THEN "raised" ELSE done)

\* what a run leaves whose update_daily, on the main feed x, left r, after
\* `before` readings of the clock; done is the mode of the run when
\* update_daily returned
DailyEnd(x, r, clk, before, done) ==
    /\ DailyStep(x, r)
    /\ corrupt' = r.corrupt
    /\ ClockStep(clk, before + r.reads)
    /\ mode' = (IF r.raises THEN "daily_raised" ELSE done)

\* what the default mode leaves after update_main_xml left m: update_daily
\* runs on what it wrote, unless an exception ended the program before
DefaultStep(m, clk) ==
    IF m.raises
    THEN /\ MainOnlyStep(m, clk, "both")
         /\ UNCHANGED <<last_seen_file, daily, created, run_cutoff, selection,
                        emitted_before, feed_before, rerun>>
    ELSE /\ MainStep(m)
         /\ DailyEnd(m.xml,
                     update_daily(m.xml, last_seen_file, daily, m.corrupt,
                                  SubSeq(clk, m.reads + 1, Len(clk))),
                     clk, m.reads, "both")

\* python parse_to_xml.py --main-only
RunMainOnly ==
    /\ runs < MaxRuns
    /\ runs' = runs + 1
    /\ corrupt_before' = corrupt
    /\ \E clk \in Readings(now, MaxBatch, Room) :
        MainOnlyStep(update_main_xml(html, xml, corrupt, clk), clk, "main")
    /\ UNCHANGED <<html, last_seen_file, daily, created, run_cutoff,
                   selection, emitted_before, feed_before, rerun, fetches>>

\* python parse_to_xml.py --daily-only
RunDailyOnly ==
    /\ runs < MaxRuns
    /\ runs' = runs + 1
    /\ corrupt_before' = corrupt
    /\ \E clk \in Readings(now, MaxDailyReads, Room) :
        DailyEnd(xml, update_daily(xml, last_seen_file, daily, corrupt, clk), clk, 0, "daily")
    /\ UNCHANGED <<html, xml, new_main, merged_page, inserted, fetches>>

\* python parse_to_xml.py: update_main_xml, then update_daily
RunDefault ==
    /\ runs < MaxRuns
    /\ runs' = runs + 1
    /\ corrupt_before' = corrupt
    /\ \E clk \in Readings(now, MaxBatch + MaxDailyReads, Room) :
        DefaultStep(update_main_xml(html, xml, corrupt, clk), clk)
    /\ UNCHANGED <<html, fetches>>

Next ==
    \/ \E page \in Pages : Fetch(page)
    \/ \E d \in TickSteps : Tick(d)
    \/ RunMainOnly
    \/ RunDailyOnly
    \/ RunDefault

Spec == Init /\ [][Next]_vars

\* ------------------------------------------------------------------------
\* update_daily as a function of the files it reads: the main feed and the
\* watermark are drawn from the feeds and watermarks earlier runs can have
\* left, and the runs of update_daily follow
\* ------------------------------------------------------------------------
\* T0 in whole seconds
S0 == T0 \div Res

StoredLinks == {<<"a">>, <<" ", "a">>, <<"b">>, <<"c">>}

\* pubDate texts: 24 hours, two seconds and one second before T0, and T0
StoredSecs == {S0 - FIRST_RUN_HOURS * 3600, S0 - 2, S0 - 1, S0}

StoredItems == [title : Titles, link : StoredLinks, pubDate : StoredSecs, img : {<<>>}]

\* the feed can be the result of merges: a head of it is what update_main_xml
\* inserts from a page of those items into the rest, itself such a feed
RECURSIVE Producible(_)
Producible(items) ==
    \/ items = <<>>
    \/ \E k \in 1..Len(items) :
        LET articles == [i \in 1..k |->
                           [url |-> items[i].link, title |-> items[i].title,
                            pub |-> ParsePubDate(items[i].pubDate), img |-> items[i].img]]
            rest == SubSeq(items, k + 1, Len(items))
        IN  /\ Producible(rest)
            /\ Trim(InsertAtTop(NewItems(articles, ExistingLinks(rest)), rest)) = items

\* a watermark an earlier run saved: a pubDate, or the instant of a run
StoredLastSeen == {(S0 - 1) * Res, (S0 - 1) * Res + 1, S0 * Res}

InitDelta ==
    /\ html = [exists |-> FALSE, cards |-> <<>>]
    /\ \E items \in SeqsUpTo(StoredItems, MAX_ITEMS) :
        /\ Producible(items)
        /\ xml = [exists |-> items # <<>>, items |-> items]
    /\ \/ last_seen_file = NoWatermark
       \/ \E w \in StoredLastSeen :
            last_seen_file = [exists |-> TRUE, last_seen |-> w, last_run |-> w]
    /\ daily = <<>>
    /\ now = T0
    /\ clock = <<>>
    /\ mode = "none"
    /\ created = <<>>
    /\ new_main = <<>>
    /\ run_cutoff = 0
    /\ selection = <<>>
    /\ emitted_before = {}
    /\ feed_before = [exists |-> FALSE, items |-> <<>>]
    /\ rerun = FALSE
    /\ merged_page = [exists |-> FALSE, cards |-> <<>>]
    /\ inserted = <<>>
    /\ corrupt = Sound
    /\ corrupt_before = Sound
    /\ fetches = 0 /\ runs = 0 /\ ticks = 0

NextDelta == RunDailyOnly

SpecDelta == InitDelta /\ [][NextDelta]_vars

\* ------------------------------------------------------------------------
\* update_main_xml as a function of the files it reads: the page and the
\* main feed are drawn, the feed from the feeds earlier merges can have left
\* ------------------------------------------------------------------------
MergedLinks == {AbsoluteUrl(<<"/", "b">>), <<"c">>, <<"d">>}

MergedItems == [title : Titles, link : MergedLinks, pubDate : {S0 - 1}, img : {<<>>}]

InitMerge ==
    /\ \E page \in Pages : html = [exists |-> TRUE, cards |-> page]
    /\ \E items \in SeqsUpTo(MergedItems, MAX_ITEMS) :
        /\ Producible(items)
        /\ xml = [exists |-> items # <<>>, items |-> items]
        /\ inserted = items
    /\ last_seen_file = NoWatermark
    /\ daily = <<>>
    /\ now = T0
    /\ clock = <<>>
    /\ mode = "none"
    /\ created = <<>>
    /\ new_main = <<>>
    /\ run_cutoff = 0
    /\ selection = <<>>
    /\ emitted_before = {}
    /\ feed_before = [exists |-> FALSE, items |-> <<>>]
    /\ rerun = FALSE
    /\ merged_page = [exists |-> FALSE, cards |-> <<>>]
    /\ corrupt = Sound
    /\ corrupt_before = Sound
    /\ fetches = 0 /\ runs = 0 /\ ticks = 0

NextMerge == RunMainOnly

SpecMerge == InitMerge /\ [][NextMerge]_vars

\* ------------------------------------------------------------------------
\* The default mode as a function of the files it reads: the page, the main
\* feed and the watermark are drawn, and default runs follow
\* ------------------------------------------------------------------------
InitDefault ==
    /\ \E page \in Pages : html = [exists |-> TRUE, cards |-> page]
    /\ \E items \in SeqsUpTo(MergedItems, MAX_ITEMS) :
        /\ Producible(items)
        /\ xml = [exists |-> items # <<>>, items |-> items]
        /\ inserted = items
    /\ \/ last_seen_file = NoWatermark
       \/ \E w \in StoredLastSeen :
            last_seen_file = [exists |-> TRUE, last_seen |-> w, last_run |-> w]
    /\ daily = <<>>
    /\ now = T0
    /\ clock = <<>>
    /\ mode = "none"
    /\ created = <<>>
    /\ new_main = <<>>
    /\ run_cutoff = 0
    /\ selection = <<>>
    /\ emitted_before = {}
    /\ feed_before = [exists |-> FALSE, items |-> <<>>]
    /\ rerun = FALSE
    /\ merged_page = [exists |-> FALSE, cards |-> <<>>]
    /\ corrupt = Sound
    /\ corrupt_before = Sound
    /\ fetches = 0 /\ runs = 0 /\ ticks = 0

NextDefault == RunDefault

SpecDefault == InitDefault /\ [][NextDefault]_vars

\* ------------------------------------------------------------------------
\* Runs that are interrupted (the process is killed, or a write raises), and
\* runs on files that do not parse.  The page, the main feed, the watermark
\* and the state of the files are drawn; complete and interrupted runs follow.
\* ------------------------------------------------------------------------
\* update_main_xml interrupted while it writes articles.xml, in the mode
\* --main-only or in the default mode, where update_daily is then not reached
InterruptMain ==
    /\ runs < MaxRuns
    /\ runs' = runs + 1
    /\ corrupt_before' = corrupt
    /\ \E clk \in Readings(now, MaxBatch, Room) :
        /\ ~scrape_articles(html, clk).raises
        /\ scrape_articles(html, clk).articles # <<>>
        /\ ~ExistingRaises(channel_items(xml, corrupt.xml))
        /\ MainOnlyStep(update_main_xml_interrupted(html, xml, corrupt, clk), clk, "main_cut")
    /\ UNCHANGED <<html, last_seen_file, daily, created, run_cutoff,
                   selection, emitted_before, feed_before, rerun, fetches>>

\* the interruptions of a run of update_daily with the plan p: at any of its
\* writes, before the file is opened or with the file emptied (torn); in the
\* write of last_seen.json, with the file emptied, before or after the clock
\* is read for last_run (late)
CutPoints(p) ==
    {cut \in [n : 0..Len(p.files), torn : BOOLEAN, late : BOOLEAN] :
        cut.late => (cut.torn /\ cut.n = Len(p.files))}

\* what a run leaves whose update_daily, on the main feed x in the state c of
\* the files and with the plan p, was interrupted; an update_daily that
\* raises as it loads has no write
CutEnd(x, p, c, clk, before, done) ==
    /\ ~p.raises
    /\ \E cut \in CutPoints(p) :
        DailyEnd(x,
                 update_daily_interrupted(p, last_seen_file, daily, c,
                                          cut.n, cut.torn, cut.late),
                 clk, before, done)

\* python parse_to_xml.py --daily-only, update_daily interrupted at one of
\* its writes
InterruptDaily ==
    /\ runs < MaxRuns
    /\ runs' = runs + 1
    /\ corrupt_before' = corrupt
    /\ \E clk \in Readings(now, MaxDailyReads, Room) :
        CutEnd(xml, DailyPlan(xml, last_seen_file, corrupt, clk), corrupt, clk, 0, "daily_cut")
    /\ UNCHANGED <<html, xml, new_main, merged_page, inserted, fetches>>

\* what the default mode leaves after update_main_xml left m and update_daily
\* was interrupted at one of its writes
DefaultCut(m, clk) ==
    /\ ~m.raises
    /\ MainStep(m)
    /\ CutEnd(m.xml,
              DailyPlan(m.xml, last_seen_file, m.corrupt, SubSeq(clk, m.reads + 1, Len(clk))),
              m.corrupt, clk, m.reads, "both_cut")

\* python parse_to_xml.py: update_main_xml, then update_daily interrupted at
\* one of its writes
InterruptDefault ==
    /\ runs < MaxRuns
    /\ runs' = runs + 1
    /\ corrupt_before' = corrupt
    /\ \E clk \in Readings(now, MaxBatch + MaxDailyReads, Room) :
        DefaultCut(update_main_xml(html, xml, corrupt, clk), clk)
    /\ UNCHANGED <<html, fetches>>

\* a page of at most one card: without a date text, or one that makes the
\* scrape raise, or one with a title that XML forbids
CrashPages ==
    SeqsUpTo([url : Urls, title : Titles, date : {<<>>}, img : {<<>>}] \cup RaisingCards
             \cup UnwritableCards, 1)

\* items one second before T0, and one of them also 24 hours before T0
RecoveryItems ==
    [title : Titles, link : MergedLinks, pubDate : {S0 - 1}, img : {<<>>}]
    \cup [title : Titles, link : {<<"d">>}, pubDate : {S0 - FIRST_RUN_HOURS * 3600},
          img : {<<>>}]

\* the watermark an earlier run saved
RecoveryLastSeen == (S0 - 1) * Res

InitCrash ==
    /\ \/ html = [exists |-> FALSE, cards |-> <<>>]
       \/ \E page \in CrashPages : html = [exists |-> TRUE, cards |-> page]
    /\ \/ \E items \in SeqsUpTo(RecoveryItems, MAX_ITEMS) :
            /\ Producible(items)
            /\ xml = [exists |-> items # <<>>, items |-> items]
            /\ inserted = items
            /\ \E bad \in {"no", "unparsable", "no_last_seen"} :
                /\ corrupt = [xml |-> FALSE, last_seen |-> bad, daily |-> {}]
                /\ IF bad = "no"
                   THEN \/ last_seen_file = NoWatermark
                        \/ last_seen_file = [exists |-> TRUE, last_seen |-> RecoveryLastSeen,
                                             last_run |-> RecoveryLastSeen]
                   ELSE last_seen_file = [exists |-> TRUE, last_seen |-> 0, last_run |-> 0]
       \/ /\ xml = [exists |-> TRUE, items |-> <<>>]
          /\ inserted = <<>>
          /\ corrupt = [xml |-> TRUE, last_seen |-> "no", daily |-> {}]
          /\ \/ last_seen_file = NoWatermark
             \/ last_seen_file = [exists |-> TRUE, last_seen |-> RecoveryLastSeen,
                                  last_run |-> RecoveryLastSeen]
    /\ daily = <<>>
    /\ now = T0
    /\ clock = <<>>
    /\ mode = "none"
    /\ created = <<>>
    /\ new_main = <<>>
    /\ run_cutoff = 0
    /\ selection = <<>>
    /\ emitted_before = {}
    /\ feed_before = [exists |-> FALSE, items |-> <<>>]
    /\ rerun = FALSE
    /\ merged_page = [exists |-> FALSE, cards |-> <<>>]
    /\ corrupt_before = Sound
    /\ fetches = 0 /\ runs = MaxRuns - MaxLaterRuns /\ ticks = 0

NextCrash ==
    \/ RunMainOnly
    \/ RunDailyOnly
    \/ RunDefault
    \/ InterruptMain
    \/ InterruptDaily
    \/ InterruptDefault

SpecCrash == InitCrash /\ [][NextCrash]_vars

\* the runs that nothing interrupts, on the files drawn above
NextRecovery ==
    \/ RunMainOnly
    \/ RunDailyOnly
    \/ RunDefault

SpecRecovery == InitCrash /\ [][NextRecovery]_vars

\* ------------------------------------------------------------------------
\* parse_date_from_text as a function of the date text: news.html holds one
\* card with a drawn date text, and update_main_xml stores what the text
\* parses to
\* ------------------------------------------------------------------------
InitParse ==
    /\ \E text \in ParseTexts :
        html = [exists |-> TRUE, cards |-> <<[url |-> <<"a">>, title |-> <<"t">>, date |-> text,
                                                 img |-> <<>>]>>]
    /\ xml = [exists |-> FALSE, items |-> <<>>]
    /\ last_seen_file = NoWatermark
    /\ daily = <<>>
    /\ now = T0
    /\ clock = <<>>
    /\ mode = "none"
    /\ created = <<>>
    /\ new_main = <<>>
    /\ run_cutoff = 0
    /\ selection = <<>>
    /\ emitted_before = {}
    /\ feed_before = [exists |-> FALSE, items |-> <<>>]
    /\ rerun = FALSE
    /\ merged_page = [exists |-> FALSE, cards |-> <<>>]
    /\ inserted = <<>>
    /\ corrupt = Sound
    /\ corrupt_before = Sound
    /\ fetches = 0 /\ runs = 0 /\ ticks = 0

NextParse ==
    \/ \E d \in TickSteps : Tick(d)
    \/ RunMainOnly

SpecParse == InitParse /\ [][NextParse]_vars

\* ========================================================================
\* Properties
\* ========================================================================
\* the step is a run of the program that calls update_main_xml (update_daily)
MainRan == runs' # runs /\ mode' \in {"main", "both"}

DailyRan == runs' # runs /\ mode' \in {"daily", "both"}

\* the step is a run that was interrupted
Interrupted == runs' # runs /\ mode' \in {"main_cut", "daily_cut", "both_cut"}

Min(a, b) == IF a < b THEN a ELSE b

\* C1: no two items of the persisted main feed share a url (the <link> text).
UniqueUrls ==
    \A i, j \in 1..Len(xml.items) : i # j => xml.items[i].link # xml.items[j].link

\* C2: after every run of update_main_xml that inserted records the main
\* feed holds at most MAX_ITEMS items, they are the most recently inserted
\* ones of all the items ever inserted, in insertion order from the head, and
\* the items the run removed are a tail of the feed it found.  The feed is
\* what articles.xml gives when it is read.
CapKeepsNewest ==
    [][(MainRan /\ new_main' # <<>>) =>
        LET old == channel_items(xml, corrupt.xml)
            feed == channel_items(xml', corrupt'.xml)
        IN  /\ Len(feed) <= MAX_ITEMS
            /\ feed = SubSeq(inserted', 1, Min(Len(inserted'), MAX_ITEMS))
            /\ \E k \in 0..Len(old) :
                /\ k <= Len(feed)
                /\ SubSeq(feed, Len(feed) - k + 1, Len(feed)) = SubSeq(old, 1, k)
                /\ Len(feed) - k <= Len(new_main')]_vars

\* C3: a run of update_main_xml on the page that the run of update_main_xml
\* before it merged inserts nothing and leaves the items of the main feed and
\* their order as they were.
MergeIdempotent ==
    [][(MainRan /\ html.exists /\ html.cards # <<>> /\ merged_page = html) =>
        (new_main' = <<>> /\ xml'.items = xml.items)]_vars

\* the watermark file gives no lastSeen: it is absent, does not parse, or
\* lacks the key
NoLastSeen == ~last_seen_file.exists \/ corrupt.last_seen # "no"

\* articles.xml is absent or does not parse
NoFeed == ~xml.exists \/ corrupt.xml

\* the readings of the clock that the update_daily of the step made
DailyClock ==
    IF mode' = "both" THEN SubSeq(clock', ScrapeReads(html, clock') + 1, Len(clock'))
    ELSE clock'

\* the readings that the update_daily of the step made before the one for
\* the placeholder
CutoffReads == IF NoLastSeen THEN 1 ELSE 0

\* the cutoff that the update_daily of the step works with
CutoffRead ==
    IF NoLastSeen THEN DailyClock[1] - FIRST_RUN_HOURS * Hour
    ELSE last_seen_file.last_seen

\* the records in the daily feed files that the last update_daily wrote
EmittedRecords == UNION {Range(daily[k]) : k \in Range(created)}

\* the record of a loaded item as write_rss puts it in a daily feed file
AsWritten(item) ==
    [title |-> item.title, link |-> item.link, pubDate |-> FormatPubDate(item.pubDate),
     img |-> AttrText(item.img)]

\* C4: with a persisted watermark lastSeen, update_daily selects exactly the
\* items of the main feed published strictly after lastSeen, and of the items
\* of one url only the first of them in feed order.
DeltaSelection ==
    [][(DailyRan /\ last_seen_file.exists) =>
        LET feed == load_existing(xml')
            lastSeen == last_seen_file.last_seen
            first == {i \in 1..Len(feed) :
                        /\ feed[i].pubDate > lastSeen
                        /\ \A j \in 1..(i - 1) :
                            ~(feed[j].link = feed[i].link /\ feed[j].pubDate > lastSeen)}
        IN  /\ Len(selection') = Cardinality(first)
            /\ Range(selection') = {feed[i] : i \in first}]_vars

\* C4 witness: a run with a persisted watermark selected items from a feed
\* that holds an item published at the watermark and two items of one url
\* that are both later than the watermark.
DeltaSelectionCase ==
    LET feed == load_existing(feed_before)
    IN  /\ mode = "daily" /\ runs = 1
        /\ run_cutoff = (S0 - 1) * Res
        /\ selection # <<>>
        /\ \E i \in 1..Len(feed) : feed[i].pubDate = run_cutoff
        /\ \E i, j \in 1..Len(feed) :
            /\ i < j /\ feed[i].link = feed[j].link
            /\ feed[i].pubDate > run_cutoff /\ feed[j].pubDate > run_cutoff

\* C5: when update_daily selected items, the lastSeen it persists is the
\* greatest publishedAt of the items of all the daily feed files it wrote.
WatermarkIsMaxOfSelection ==
    (mode \in {"daily", "both"} /\ selection # <<>>) =>
        /\ last_seen_file.exists
        /\ \A e \in EmittedRecords : ParsePubDate(e.pubDate) <= last_seen_file.last_seen
        /\ \E e \in EmittedRecords : ParsePubDate(e.pubDate) = last_seen_file.last_seen

\* C5 witness: the selection went to two files, the second holds an item
\* older than the watermark saved, and the watermark is not the time of the run.
WatermarkOverBatchesCase ==
    /\ mode = "daily"
    /\ Len(created) >= 2
    /\ \E e \in Range(daily[2]) : ParsePubDate(e.pubDate) < last_seen_file.last_seen
    /\ last_seen_file.last_seen # last_seen_file.last_run

\* C6: a run of update_daily always leaves a primary daily feed with items;
\* when no item of the main feed is published after the cutoff it writes the
\* primary feed alone, holding the one placeholder record, leaves every
\* overflow file as it was, and saves the time of the run as lastSeen.
PlaceholderFallback ==
    [][DailyRan =>
        LET feed == load_existing(xml')
        IN  /\ Len(daily') >= 1 /\ daily'[1] # <<>>
            /\ (\A i \in 1..Len(feed) : feed[i].pubDate <= CutoffRead) =>
                /\ created' = <<1>>
                /\ daily'[1] = <<[title |-> PLACEHOLDER_TITLE, link |-> SITE_ROOT,
                                  pubDate |-> FormatPubDate(DailyClock[CutoffReads + 1]),
                                  img |-> <<>>]>>
                /\ Len(daily') = (IF Len(daily) > 1 THEN Len(daily) ELSE 1)
                /\ \A k \in 2..Len(daily) : daily'[k] = daily[k]
                /\ last_seen_file'.exists
                /\ last_seen_file'.last_seen = DailyClock[CutoffReads + 2]]_vars

\* C6 witness: the placeholder was written for a feed that holds items, none
\* of them selected, and the watermark saved is the timestamp of none of them.
PlaceholderCase ==
    LET feed == load_existing(feed_before)
    IN  /\ mode = "daily"
        /\ feed # <<>>
        /\ selection = <<>>
        /\ created = <<1>>
        /\ Len(daily[1]) = 1 /\ daily[1][1].title = PLACEHOLDER_TITLE
        /\ \A i \in 1..Len(feed) : feed[i].pubDate # last_seen_file.last_seen

\* C7: a selection of n items is written as ceil(n / MAX_ITEMS_PER_DAILY)
\* files numbered from 1 (the primary), file k holding the k-th slice of
\* MAX_ITEMS_PER_DAILY consecutive items of the sorted selection; every file
\* but the last is full and the last holds at least one item.
Batching ==
    (mode \in {"daily", "both"} /\ selection # <<>>) =>
        LET n == Len(selection)
            nb == (n + MAX_ITEMS_PER_DAILY - 1) \div MAX_ITEMS_PER_DAILY
        IN  /\ created = [k \in 1..nb |-> k]
            /\ Len(daily) >= nb
            /\ \A k \in 1..nb :
                /\ daily[k] = write_rss(SubSeq(selection, (k - 1) * MAX_ITEMS_PER_DAILY + 1,
                                               Min(k * MAX_ITEMS_PER_DAILY, n)))
                /\ k < nb => Len(daily[k]) = MAX_ITEMS_PER_DAILY
                /\ Len(daily[k]) \in 1..MAX_ITEMS_PER_DAILY

\* C7 witness: three items were selected and written as a full primary file
\* and an overflow file with the third item.
BatchingCase ==
    /\ mode = "daily"
    /\ Len(selection) = MAX_ITEMS_PER_DAILY + 1
    /\ created = <<1, 2>>
    /\ Len(daily[1]) = MAX_ITEMS_PER_DAILY
    /\ Len(daily[2]) = 1

\* C8: no item that the update_daily runs before the last one emitted is
\* among the items the last update_daily run emitted.
NoReEmission ==
    mode \in {"daily", "both"} => Range(selection) \cap emitted_before = {}

\* C9: a run of update_daily that reads the main feed as the update_daily run
\* before it read it selects no item and writes the placeholder.
RerunWritesPlaceholder ==
    (mode \in {"daily", "both"} /\ rerun) =>
        /\ selection = <<>>
        /\ created = <<1>>
        /\ Len(daily[1]) = 1 /\ daily[1][1].title = PLACEHOLDER_TITLE

\* C10: an item that the merge of a default run inserted is emitted by the
\* delta of that run, or it is still later than the watermark the run saved,
\* so that the delta of a following run selects it.
GapFree ==
    mode = "both" =>
        \A i \in 1..Len(new_main) :
            LET item == [title |-> new_main[i].title, link |-> Strip(new_main[i].link),
                         pubDate |-> ParsePubDate(new_main[i].pubDate),
                         img |-> new_main[i].img]
            IN  \/ AsWritten(item) \in EmittedRecords
                \/ item.pubDate > last_seen_file.last_seen

\* C11: a run interrupted during a save leaves the file it was saving with
\* its previous content: a main feed or a watermark that does not parse after
\* the interruption loaded to nothing before it as well, and a daily feed
\* file that existed holds what it held.
SaveAllOrNothing ==
    [][Interrupted =>
        /\ corrupt'.xml =>
            load_feed(xml', corrupt'.xml) = load_feed(xml, corrupt.xml)
        /\ corrupt'.last_seen # "no" =>
            load_last_seen(last_seen_file', corrupt'.last_seen)
                = load_last_seen(last_seen_file, corrupt.last_seen)
        /\ \A k \in corrupt'.daily : k <= Len(daily) => daily'[k] = daily[k]]_vars

\* C12: a default run with news.html absent leaves articles.xml, the daily
\* feed files and last_seen.json as they were.
MissingInputLeavesState ==
    [][(runs' # runs /\ mode' = "both" /\ ~html.exists) =>
        /\ xml' = xml
        /\ daily' = daily
        /\ last_seen_file' = last_seen_file]_vars

\* C13: a run of update_daily that finds no usable watermark works with the
\* cutoff now - 24 hours, selects the items of the feed later than it, and
\* saves a readable watermark and a primary daily feed; a run of
\* update_main_xml that finds no usable main feed inserts the scraped records
\* as into an empty feed and writes them as the whole feed; a run of
\* update_daily that finds no usable main feed writes the placeholder; and no
\* run that finds such a file ends with an exception, unless the scrape of
\* the page raised it.
FirstRunOnBadState ==
    [][/\ (DailyRan /\ NoLastSeen) =>
            LET feed == load_feed(xml', corrupt'.xml)
                cutoff == DailyClock[1] - FIRST_RUN_HOURS * Hour
            IN  /\ run_cutoff' = cutoff
                /\ \A i \in 1..Len(feed) :
                    feed[i].pubDate > cutoff =>
                        \E j \in 1..Len(selection') : selection'[j].link = feed[i].link
                /\ \A j \in 1..Len(selection') :
                    selection'[j] \in Range(feed) /\ selection'[j].pubDate > cutoff
                /\ last_seen_file'.exists /\ corrupt'.last_seen = "no"
                /\ last_seen_file'.last_seen =
                        (IF selection' = <<>> THEN DailyClock[3] ELSE MaxPubDate(selection'))
                /\ Len(daily') >= 1 /\ 1 \notin corrupt'.daily /\ daily'[1] # <<>>
       /\ (MainRan /\ NoFeed /\ scrape_articles(html, clock').articles # <<>>) =>
            /\ xml'.exists
            /\ new_main' = NewItems(scrape_articles(html, clock').articles, {})
            /\ xml'.items = Trim(new_main')
       /\ (runs' # runs /\ mode' = "daily" /\ NoFeed) =>
            /\ selection' = <<>>
            /\ created' = <<1>>
            /\ daily'[1] = write_rss(Placeholder(clock'[CutoffReads + 1]))
            /\ last_seen_file' = [exists |-> TRUE, last_seen |-> clock'[CutoffReads + 2],
                                  last_run |-> clock'[CutoffReads + 3]]
       /\ (runs' # runs /\ (NoLastSeen \/ NoFeed)) =>
            /\ mode' # "daily_raised"
            /\ mode' = "raised" =>
                \E i \in 1..Len(html.cards) : html.cards[i] \in RaisingCards]_vars

\* C13 witness: update_daily found a watermark file that does not give a
\* lastSeen, took the items of the last 24 hours, left an older item out and
\* saved a readable watermark.
RecoveredFromBadWatermark ==
    LET feed == load_existing(feed_before)
    IN  /\ mode = "daily"
        /\ corrupt_before.last_seen # "no"
        /\ run_cutoff = clock[1] - FIRST_RUN_HOURS * Hour
        /\ selection # <<>>
        /\ \E i \in 1..Len(feed) : feed[i].pubDate <= run_cutoff
        /\ last_seen_file.exists /\ corrupt.last_seen = "no"
        /\ last_seen_file.last_seen = MaxPubDate(selection)

\* a is b with some of its elements left out, the others in their order
RECURSIVE IsSubSeq(_, _)
IsSubSeq(a, b) ==
    IF a = <<>> THEN TRUE
    ELSE IF b = <<>> THEN FALSE
    ELSE IF Head(a) = Head(b) THEN IsSubSeq(Tail(a), Tail(b)) \/ IsSubSeq(a, Tail(b))
    ELSE IsSubSeq(a, Tail(b))

\* the <item> that update_main_xml creates for a scraped record
AsItem(art) ==
    [title |-> art.title, link |-> art.url, pubDate |-> FormatPubDate(art.pub),
     img |-> art.img]

\* the merge that scraped `articles` and found the items old inserted the
\* records new and left the items merged
MergePlaced(articles, old, new, merged) ==
    /\ IsSubSeq(new, [i \in 1..Len(articles) |-> AsItem(articles[i])])
    /\ merged = SubSeq(new \o old, 1, Min(Len(new \o old), MAX_ITEMS))
    /\ \A i \in 1..Len(articles) :
        (\E k \in 1..Len(old) : old[k].link = articles[i].url /\ Strip(old[k].link) = old[k].link)
            => \A j \in 1..Len(new) : new[j].link # articles[i].url

\* C14: a merge leaves the feed as the inserted records, which are scraped
\* records in their extraction order, followed by all the items it found, each
\* with its fields and in its order, cut to MAX_ITEMS; so no stored item is
\* changed or moved by a scraped record of its url.  The feed is what
\* articles.xml gives when it is read.
MergePlacement ==
    [][(MainRan /\ scrape_articles(html, clock').articles # <<>>) =>
        MergePlaced(scrape_articles(html, clock').articles, channel_items(xml, corrupt.xml),
                    new_main', channel_items(xml', corrupt'.xml))]_vars

\* C15: no record that a merge inserts has a url that, trimmed, is the
\* trimmed url of an item the merge found in the feed or of a record it
\* inserted earlier in the same batch.
DedupComparesTrimmed ==
    [][MainRan =>
        LET old == channel_items(xml, corrupt.xml)
        IN  \A j \in 1..Len(new_main') :
                /\ \A k \in 1..Len(old) : Strip(old[k].link) # Strip(new_main'[j].link)
                /\ \A i \in 1..(j - 1) :
                    Strip(new_main'[i].link) # Strip(new_main'[j].link)]_vars

\* the text is <integer><unit> and nothing else: digits, optional whitespace,
\* one of m, h, d in either case
IsRelativeForm(text) ==
    LET t == LowerText(Strip(text))
        nd == LeadingDigits(t)
        rest == SubSeq(t, nd + 1, Len(t))
    IN  /\ nd >= 1
        /\ rest # <<>>
        /\ LeadingSpaces(rest) = Len(rest) - 1
        /\ rest[Len(rest)] \in {"m", "h", "d"}

\* the instant C16 claims for a date text: relative only in the exact form,
\* a text in one of the explicit formats as the instant it denotes in UTC,
\* the reading t of the clock otherwise
ClaimedInstant(text, t) ==
    IF IsRelativeForm(text) THEN parse_relative_time(text, t).instant
    ELSE InstantOr(TryFormats(text, 1), t)

\* C16: the pubDate that update_main_xml stores for a card is the instant
\* its date text denotes: now minus the value for a text of the exact form
\* <integer><unit>, the UTC instant written for a text in one of the three
\* explicit formats (every month, every day), and now for any other text.
TimeNormalizerOrder ==
    [][(MainRan /\ Len(html.cards) = 1 /\ new_main' # <<>>) =>
        new_main'[1].pubDate =
            FormatPubDate(ClaimedInstant(Strip(html.cards[1].date),
                                         IF clock' = <<>> THEN now ELSE clock'[1]))]_vars

\* the sequences of a sequence, one after the other
RECURSIVE Flatten(_)
Flatten(seqs) == IF seqs = <<>> THEN <<>> ELSE Head(seqs) \o Flatten(Tail(seqs))

\* C17: the items of the daily feed files a run wrote, read file after file,
\* are in non-increasing order of pubDate, and of two items with the same
\* pubDate the one that comes first in the main feed comes first.
DeltaOrdering ==
    [][(DailyRan /\ selection' # <<>>) =>
        LET emitted == Flatten([k \in 1..Len(created') |-> daily'[created'[k]]])
            feed == load_feed(xml', corrupt'.xml)
            pos(rec) == CHOOSE i \in 1..Len(feed) :
                            /\ AsWritten(feed[i]) = rec /\ feed[i].pubDate > CutoffRead
                            /\ \A j \in 1..(i - 1) :
                                ~(AsWritten(feed[j]) = rec /\ feed[j].pubDate > CutoffRead)
        IN  /\ Len(emitted) = Len(selection')
            /\ \A a, b \in 1..Len(emitted) :
                a < b =>
                    /\ emitted[a].pubDate >= emitted[b].pubDate
                    /\ emitted[a].pubDate = emitted[b].pubDate =>
                        pos(emitted[a]) < pos(emitted[b])]_vars

\* C17 witness: a run emitted three items over two files, two of them with
\* the same pubDate, after moving a later item of the feed ahead of them.
DeltaOrderingCase ==
    LET feed == load_existing(feed_before)
    IN  /\ mode = "daily"
        /\ Len(selection) = 3 /\ Len(created) = 2
        /\ selection[2].pubDate = selection[3].pubDate
        /\ selection[1].pubDate > selection[2].pubDate
        /\ selection[2].link # selection[3].link
        /\ feed[1] = selection[2] /\ feed[2] = selection[1] /\ feed[3] = selection[3]

\* C18: the lastSeen that a run of update_daily saves is not earlier than
\* the lastSeen it read.
WatermarkMonotone ==
    [][(DailyRan /\ last_seen_file.exists /\ corrupt.last_seen = "no") =>
        last_seen_file'.last_seen >= last_seen_file.last_seen]_vars

\* C19: when last_seen.json holds a lastSeen, every item of the main feed
\* published at or before it is an item that a run of update_daily selected
\* and wrote to the daily feed files.
WatermarkCoversWritten ==
    last_seen_file.exists =>
        \A i \in 1..Len(load_feed(xml, corrupt.xml)) :
            load_feed(xml, corrupt.xml)[i].pubDate <= last_seen_file.last_seen =>
                load_feed(xml, corrupt.xml)[i] \in emitted_before \cup Range(selection)

\* C20: after a run of update_daily every daily feed file on disk is one
\* the run wrote and holds records of that run only.
NoStaleOverflow ==
    mode \in {"daily", "both"} =>
        \A k \in 1..Len(daily) :
            /\ k \in Range(created)
            /\ \A i \in 1..Len(daily[k]) :
                \/ daily[k][i] \in Range(write_rss(selection))
                \/ selection = <<>> /\ daily[k][i].title = PLACEHOLDER_TITLE

====
